---- MODULE Spec2Model ----
(***************************************************************************)
(* AlphaVSS 0.8, Src/Exceptions/VssTransactionThawTimeoutException.cpp.    *)
(*                                                                         *)
(* The translation unit is modelled in two phases.  First the preprocessor *)
(* walks the file (include, #if/#define, the constructors that expand the  *)
(* code macro, #if/#undef); then the compiled constructors are called and  *)
(* the resulting managed objects are read and serialized.  The base class  *)
(* VssException and the SDK headers are not part of the file; they are     *)
(* modelled from the descriptive specification of the unit.                *)
(***************************************************************************)
EXTENDS Integers, Sequences, FiniteSets, TLC

VARIABLES
    target,       \* ALPHAVSS_TARGET of this build
    pc,           \* position of the preprocessor/compiler in the file, then "run"
    macros,       \* macro table: name -> replacement token, or Undefined
    entryMacros,  \* the macro table as StdAfx.h left it (line 21)
    compiled,     \* the code argument compiled into the constructors of lines 31 and 36
    baseDefault,  \* code the base gives an instance it is handed no code for
    heap,         \* the managed exception objects, by reference 1..Len(heap)
    calls,        \* for each object, the construction call that made it
    wire,         \* <<>> or <<info>>: a SerializationInfo in flight
    wireSrc,      \* reference of the object the info in flight was written from (0: none)
    seen          \* <<>> or <<r>>: the last accessor read, by any thread

vars == <<target, pc, macros, entryMacros, compiled, baseDefault, heap, calls, wire, wireSrc, seen>>

\* ---------------------------------------------------------------- bounds
MaxObjects == 2
NumThreads == 2

\* ------------------------------------------------------- build constants
ALPHAVSS_TARGET_WIN2008 == 3

\* one target below the Windows 2008 level, that level, and one above it
Targets == (ALPHAVSS_TARGET_WIN2008 - 1)..(ALPHAVSS_TARGET_WIN2008 + 1)
Threads == 1..NumThreads

THAW == "VSS_E_TRANSACTION_THAW_TIMEOUT"
REBOOT == "VSS_E_REBOOT_REQUIRED"
UNEXPECTED == "E_UNEXPECTED"
MacroNames == {THAW, REBOOT, UNEXPECTED}
Undefined == "#undefined"

\* HRESULT values, as the tokens the SDK headers give them
NativeThawCode == "0x80042329"
NativeRebootCode == "0x80042327"
UnexpectedCode == "0x8000FFFF"
FailCode == "0x80004005"
ClrExceptionCode == "0x80131500"
HResults == {NativeThawCode, NativeRebootCode, UnexpectedCode, FailCode, ClrExceptionCode}

\* Macro replacement with rescanning: a token that names a defined macro is
\* replaced by its body, and the result is scanned again.
RECURSIVE Expand(_, _)
Expand(tbl, tok) ==
    IF tok \in MacroNames /\ tbl[tok] # Undefined
    THEN Expand(tbl, tbl[tok])
    ELSE tok

\* The macro table after #include "StdAfx.h": E_UNEXPECTED always comes from
\* winerror.h; the two VSS codes come from the SDK's vsserror.h when it has them
\* (both were added to it together, for Vista and Windows 2008).
SdkMacros(hasVistaCodes) ==
    [n \in MacroNames |->
        IF n = UNEXPECTED THEN UnexpectedCode
        ELSE IF ~hasVistaCodes THEN Undefined
        ELSE IF n = THAW THEN NativeThawCode
        ELSE NativeRebootCode]

\* the comparison of line 24 written with <= (the fallback also taken on Windows 2008)
Cond24_OffByOne(t) == t <= ALPHAVSS_TARGET_WIN2008
Cond24(t) == t < ALPHAVSS_TARGET_WIN2008
Cond52(t) == t < ALPHAVSS_TARGET_WIN2008

Define(tbl, name, body) == [tbl EXCEPT ![name] = body]
Undef(tbl, name) == [tbl EXCEPT ![name] = Undefined]

\* ------------------------------------------------------ the managed side
SiblingClassName == "VssRebootRequiredException"
\* the constructors left under the name of the class the file was copied from
ClassName_Copied == SiblingClassName
ClassName == "VssTransactionThawTimeoutException"

DefaultMessage == "The system was unable to thaw the Distributed Transaction Coordinator (DTC) or the Kernel Transaction Manager (KTM)."
Messages == {"", "custom msg"}
Contexts == {"File", "CrossProcess"}

\* A base constructor that is handed no code leaves the error code of the
\* framework exception it derives from: E_FAIL or COR_E_EXCEPTION.
BaseDefaultCodes == {FailCode, ClrExceptionCode}

\* VssException(HRESULT, String^): stores both, no inner exception (0 is nullptr)
VssException_CodeMessage(errorCode, message) ==
    [code |-> errorCode, message |-> message, inner |-> 0]

\* VssException(String^, Exception^): is handed no code
VssException_MessageInner(dflt, message, innerException) ==
    [code |-> dflt, message |-> message, inner |-> innerException]

\* Exception::GetObjectData: the named values written to a SerializationInfo
GetObjectData(obj) ==
    [ClassName |-> obj.type, Message |-> obj.message,
     HResult |-> obj.code, InnerException |-> obj.inner]

\* VssException(SerializationInfo^, StreamingContext): reads the named values back
VssException_Serialization(info, context) ==
    [code |-> info.HResult, message |-> info.Message, inner |-> info.InnerException]

\* The object whose most derived class is `cls` and whose base part is `base`
Instance(cls, base) ==
    [type |-> cls, code |-> base.code, message |-> base.message, inner |-> base.inner]

\* the default constructor with the message of the class the file was copied from
DefaultCtor_OtherMessage(h, c) ==
    Append(h, Instance(ClassName, VssException_CodeMessage(c.c31, "A reboot is required.")))

\* lines 30-33
DefaultCtor(h, c) ==
    Append(h, Instance(ClassName, VssException_CodeMessage(c.c31, DefaultMessage)))

\* the message-only constructor not forwarding its argument
MessageCtor_KeepsDefault(h, c, message) ==
    Append(h, Instance(ClassName, VssException_CodeMessage(c.c36, DefaultMessage)))

\* lines 35-38
MessageCtor(h, c, message) ==
    Append(h, Instance(ClassName, VssException_CodeMessage(c.c36, message)))

\* the message+cause constructor forwarding nullptr for the cause
MessageInnerCtor_DropsInner(h, dflt, message, innerException) ==
    Append(h, Instance(ClassName, VssException_MessageInner(dflt, message, 0)))

\* the message+cause constructor writing its message into the cause as well
MessageInnerCtor_TouchesInner(h, dflt, message, innerException) ==
    Append(IF innerException = 0 THEN h ELSE [h EXCEPT ![innerException].message = message],
           Instance(ClassName, VssException_MessageInner(dflt, message, innerException)))

\* lines 40-43
MessageInnerCtor(h, dflt, message, innerException) ==
    Append(h, Instance(ClassName, VssException_MessageInner(dflt, message, innerException)))

\* the reconstruction constructor not forwarding the info to the base
SerializationCtor_IgnoresInfo(h, info, context) ==
    Append(h, Instance(ClassName, VssException_CodeMessage(FailCode, "")))

\* lines 45-48
SerializationCtor(h, info, context) ==
    Append(h, Instance(ClassName, VssException_Serialization(info, context)))

Call(op, message, inner, from) ==
    [op |-> op, message |-> message, inner |-> inner, from |-> from]

\* The errors that exist before this class is used: a lower-level framework
\* error, and a sibling variant, whose file gives it the same fallback on old targets.
SiblingCode(t) == IF t < ALPHAVSS_TARGET_WIN2008 THEN UnexpectedCode ELSE NativeRebootCode
LowerLevelErrors(t) ==
    << Instance("Exception", VssException_CodeMessage(ClrExceptionCode, "")),
       Instance(SiblingClassName, VssException_CodeMessage(SiblingCode(t), "")) >>
LowerLevelCalls == << Call("Other", "", 0, 0), Call("Sibling", "", 0, 0) >>


Init ==
    /\ target \in Targets
    /\ pc = "L21"
    /\ macros = [n \in MacroNames |-> Undefined]
    /\ entryMacros = [n \in MacroNames |-> Undefined]
    /\ compiled = [c31 |-> Undefined, c36 |-> Undefined]
    /\ baseDefault \in BaseDefaultCodes
    /\ heap = <<>>
    /\ calls = <<>>
    /\ wire = <<>>
    /\ wireSrc = 0
    /\ seen = <<>>

Runtime == <<baseDefault, heap, calls, wire, wireSrc, seen>>

\* line 21: #include "StdAfx.h".  On a Vista/2008 target the thaw code is
\* defined by the SDK (comment of line 23); on an older target it may or may not be.
Include ==
    /\ pc = "L21"
    /\ \E hasVistaCodes \in BOOLEAN :
          /\ (target >= ALPHAVSS_TARGET_WIN2008 => hasVistaCodes)
          /\ macros' = SdkMacros(hasVistaCodes)
          /\ entryMacros' = SdkMacros(hasVistaCodes)
    /\ pc' = "L24"
    /\ UNCHANGED <<target, compiled>>
    /\ UNCHANGED Runtime

\* lines 24-26
DefineFallback ==
    /\ pc = "L24"
    /\ macros' = IF Cond24(target) THEN Define(macros, THAW, UNEXPECTED) ELSE macros
    /\ pc' = "L28"
    /\ UNCHANGED <<target, entryMacros, compiled>>
    /\ UNCHANGED Runtime

\* lines 28-50: the constructors are compiled; the macro is expanded where it is used
CompileConstructors ==
    /\ pc = "L28"
    /\ compiled' = [c31 |-> Expand(macros, THAW), c36 |-> Expand(macros, THAW)]
    /\ pc' = "L52"
    /\ UNCHANGED <<target, macros, entryMacros>>
    /\ UNCHANGED Runtime

\* lines 52-54
UndefAtEnd ==
    /\ pc = "L52"
    /\ macros' = IF Cond52(target) THEN Undef(macros, REBOOT) ELSE macros
    /\ pc' = "eof"
    /\ UNCHANGED <<target, entryMacros, compiled>>
    /\ UNCHANGED Runtime

\* the built assembly is loaded; the errors this class will wrap or be told from exist
Start ==
    /\ pc = "eof"
    /\ pc' = "run"
    /\ heap' = LowerLevelErrors(target)
    /\ calls' = LowerLevelCalls
    /\ UNCHANGED <<target, macros, entryMacros, compiled, baseDefault, wire, wireSrc, seen>>

Built == pc = "run" /\ Len(heap) < Len(LowerLevelCalls) + MaxObjects

Build == <<target, pc, macros, entryMacros, compiled, baseDefault>>

NewDefault ==
    /\ Built
    /\ heap' = DefaultCtor(heap, compiled)
    /\ calls' = Append(calls, Call("Default", "", 0, 0))
    /\ UNCHANGED <<wire, wireSrc, seen>>
    /\ UNCHANGED Build

NewMessage ==
    /\ Built
    /\ \E m \in Messages :
          /\ heap' = MessageCtor(heap, compiled, m)
          /\ calls' = Append(calls, Call("Message", m, 0, 0))
    /\ UNCHANGED <<wire, wireSrc, seen>>
    /\ UNCHANGED Build

NewMessageInner ==
    /\ Built
    /\ \E m \in Messages, c \in 0..Len(heap) :
          /\ heap' = MessageInnerCtor(heap, baseDefault, m, c)
          /\ calls' = Append(calls, Call("MessageInner", m, c, 0))
    /\ UNCHANGED <<wire, wireSrc, seen>>
    /\ UNCHANGED Build

\* a formatter writes an instance of this class to a SerializationInfo
Serialize ==
    /\ pc = "run"
    /\ \E i \in 1..Len(heap) :
          /\ heap[i].type = ClassName
          /\ wire' = <<GetObjectData(heap[i])>>
          /\ wireSrc' = i
    /\ UNCHANGED <<heap, calls, seen>>
    /\ UNCHANGED Build

Reconstruct ==
    /\ Built
    /\ wire # <<>>
    /\ \E ctx \in Contexts :
          /\ heap' = SerializationCtor(heap, wire[1], ctx)
          /\ calls' = Append(calls, Call("Serialization", "", 0, wireSrc))
    /\ UNCHANGED <<wire, wireSrc, seen>>
    /\ UNCHANGED Build

\* a thread reads the inherited accessors of one instance of this class
Read ==
    /\ pc = "run"
    /\ \E t \in Threads, i \in 1..Len(heap) :
          /\ heap[i].type = ClassName
          /\ seen' = <<[thread |-> t, obj |-> i, code |-> heap[i].code,
                        message |-> heap[i].message, inner |-> heap[i].inner]>>
    /\ UNCHANGED <<heap, calls, wire, wireSrc>>
    /\ UNCHANGED Build

Next ==
    \/ Include \/ DefineFallback \/ CompileConstructors \/ UndefAtEnd \/ Start
    \/ NewDefault \/ NewMessage \/ NewMessageInner \/ Reconstruct
    \/ Serialize \/ Read

Spec == Init /\ [][Next]_vars
\* ------------------------------------------------------------ the claims
\* The fixed constant of this failure, as the unit's description states it:
\* the native code, or E_UNEXPECTED on targets below Windows 2008.
FixedCode(t) == IF t < ALPHAVSS_TARGET_WIN2008 THEN UnexpectedCode ELSE NativeThawCode

OwnPaths == {"Default", "Message", "MessageInner", "Serialization"}
Objects == 1..Len(heap)

C2_DefaultMessage ==
    \A i \in Objects :
        calls[i].op = "Default" =>
            /\ heap[i].message = "The system was unable to thaw the Distributed Transaction Coordinator (DTC) or the Kernel Transaction Manager (KTM)."
            /\ heap[i].inner = 0

C2_Witness == \E i \in Objects : calls[i].op = "Default"

\* C3: message-only construction with text m gives message m exactly (the
\* default message is discarded) and the same fixed code as default construction.
C3_MessageOnly ==
    \A i \in Objects :
        calls[i].op = "Message" =>
            /\ heap[i].message = calls[i].message
            /\ heap[i].code = FixedCode(target)
            /\ \A j \in Objects : calls[j].op = "Default" => heap[i].code = heap[j].code

C3_Witness ==
    \E i, k \in Objects :
        /\ calls[i].op = "Message" /\ calls[i].message = "" /\ heap[i].message = ""
        /\ calls[k].op = "Default"

\* C4: a message+cause construction with (m, c) makes an instance whose
\* message is m and whose cause is the reference c, and leaves every object
\* that existed before, the cause among them, as it was.
C4_MessageInner ==
    [][ (Len(heap') = Len(heap) + 1 /\ calls'[Len(calls')].op = "MessageInner") =>
            /\ heap'[Len(heap')].message = calls'[Len(calls')].message
            /\ heap'[Len(heap')].inner = calls'[Len(calls')].inner
            /\ \A i \in Objects : heap'[i] = heap[i] ]_vars

C4_Witness ==
    \E i \in Objects :
        /\ calls[i].op = "MessageInner"
        /\ calls[i].inner # 0
        /\ calls[i].message = "custom msg"
        /\ heap[i].inner = calls[i].inner
        /\ calls[calls[i].inner].op \in OwnPaths

C7_Immutable ==
    [][ /\ \A i \in Objects : i <= Len(heap') /\ heap'[i] = heap[i]
        /\ seen' # <<>> =>
              /\ seen'[1].code = heap'[seen'[1].obj].code
              /\ seen'[1].message = heap'[seen'[1].obj].message
              /\ seen'[1].inner = heap'[seen'[1].obj].inner ]_vars

C7_Witness ==
    /\ seen # <<>>
    /\ seen[1].thread = NumThreads
    /\ seen[1].obj < Len(heap)
    /\ calls[seen[1].obj].op = "MessageInner"
    /\ seen[1].inner # 0

\* C8: an instance of this class, whatever path made it, differs in type from
\* an instance of a sibling variant that is bound to a different fixed code.
C8_TypeDiscrimination ==
    \A i, j \in Objects :
        (calls[i].op \in OwnPaths /\ calls[j].op = "Sibling" /\ heap[j].code # FixedCode(target)) =>
            heap[i].type # heap[j].type

C8_Witness ==
    /\ \E j \in Objects : calls[j].op = "Sibling" /\ heap[j].code # FixedCode(target)
    /\ \E i, k \in Objects : calls[i].op = "Serialization" /\ calls[k].op = "MessageInner"

C10_FallbackScoped ==
    target < ALPHAVSS_TARGET_WIN2008 =>
        /\ pc = "L28" => macros[THAW] = UNEXPECTED
        /\ pc = "eof" =>
              /\ macros[THAW] = Undefined
              /\ \A n \in MacroNames \ {THAW} : macros[n] = entryMacros[n]
====
